---- MODULE Spec2Model ----
(***************************************************************************)
(* The IT help-desk canister of src/dfinity_js_backend/src/index.ts: five  *)
(* StableBTreeMap stores and the update/query methods over them.           *)
(*                                                                         *)
(* Representation of JavaScript values:                                    *)
(*   - a text is a TLA+ string; an identifier (a uuid text) is a number,   *)
(*     with EmptyId standing for the empty text "";                        *)
(*   - a Candid Variant / Opt value is the object {tag: val}, written      *)
(*     Variant(tag, val); it is an object, never a string;                 *)
(*   - an error message is the sequence of the parts of its (template)     *)
(*     string;                                                             *)
(*   - a nat64 / BigInt is an unbounded integer (BigInt does not wrap).    *)
(***************************************************************************)
EXTENDS Integers, Sequences, FiniteSets, TLC

\* ------------------------------------------------------------------ bounds

\* Number of identifiers uuidv4() hands out in one run.
MaxIds == 3
\* Largest reading of the wall clock, in clock units (see MS_PER_YEAR).
MaxNow == 1
\* Largest age, in years, of an asset whose value is calculated.
MaxYears == 2

\* ------------------------------------------------------ values and inputs

\* azle's Null: the value a payload-free variant tag carries.
Null == 0
\* The empty text "" when it is used as an identifier.
EmptyId == 0

Variant(tag, val) == [kind |-> "object", tag |-> tag, val |-> val]
JSString(s) == [kind |-> "string", val |-> s]

\* JavaScript `key in obj` for a one-tag variant object.
HasKey(obj, key) == obj.kind = "object" /\ obj.tag = key

\* JavaScript `a === b`: two strings are equal when their contents are; two
\* objects are equal only when they are the same reference, and every object
\* compared in this program is freshly decoded or a fresh literal; operands
\* of different types are never equal.
StrictEquals(a, b) == a.kind = "string" /\ b.kind = "string" /\ a.val = b.val

None == Variant("None", Null)
Some(x) == Variant("Some", x)
Ok(v) == [tag |-> "Ok", val |-> v]
Err(e) == [tag |-> "Err", val |-> e]

UserRole == {Variant("Admin", Null), Variant("ITSupport", Null), Variant("User", Null)}
TicketPriority == {Variant("Low", Null), Variant("High", Null)}
TicketStatus == {Variant(t, s) : t \in {"Open", "InProgress", "Closed"}, s \in {"s"}}
ReportType == {Variant(t, Null) : t \in {"OpenTickets", "ClosedTickets", "InProgressTickets", "AssetUtilization"}}

ErrorMessages == [USER_NOT_FOUND |-> <<"User not found.">>,
                  USERNAME_REQUIRED |-> <<"Username is required.">>,
                  USERNAME_EXISTS |-> <<"Username already exists, try another one.">>,
                  TICKET_NOT_FOUND |-> <<"Ticket not found.">>,
                  ASSET_NOT_FOUND |-> <<"Asset not found.">>]

\* Identifiers a caller may pass: "" and every identifier uuidv4() can hand
\* out (one not handed out yet, or handed out for another store, is unknown).
IdInputs == 0..MaxIds
Times == 0..MaxNow
Usernames == {"", "alice", "bob"}
Titles == {"", "Printer broken"}
Descriptions == {"", "No toner"}

Contents == {"", "c"}
PurchaseDates == {0}
ApproxValues == {1000}
DepreciationRates == {20}

UserPayload == [username : Usernames, role : UserRole]
TicketPayload(I) == [userId : I, title : Titles, description : Descriptions,
                     priority : TicketPriority]
AssignTicketPayload(I) == [ticketId : I, userId : I]
CommentPayload(I) == [ticketId : I, userId : I, content : Contents]
UpdateTicketStatusPayload(I) == [ticketId : I, userId : I, newStatus : TicketStatus]
ITAssetPayload(I) == [asset_name : {"", "Laptop"}, asset_type : {"", "Hardware"},
                      purchase_date : PurchaseDates, assigned_to : I,
                      approx_value : ApproxValues,
                      depreciation_rate : DepreciationRates]
AssetMaintenanceRecordPayload(I) == [assetId : I, maintenanceType : {"repair"},
                                     description : {"fan"}, cost : {5}, date : {0}]
GenerateReportPayload == [reportType : ReportType]

\* The clock unit is a half year (15 768 000 000 ms), so that the BigInt
\* 31536000000 of calculateAssetValue, the milliseconds in a year, is 2 units.
MS_PER_YEAR == 2

\* BigInt division: the quotient truncated toward zero.
BigIntDiv(a, b) == IF (a >= 0) = (b > 0) THEN a \div b ELSE -((-a) \div b)

\* JSON.stringify of an array: its text, kept as the serialized elements.
JSONstringify(array) == <<"[", array, "]">>

\* new Date().toISOString() of a clock reading.
toISOString(t) == <<t, "Z">>

\* ------------------------------------------------------------------- state

VARIABLES
    ticketStorage,                  \* StableBTreeMap(0): id -> Ticket
    userStorage,                    \* StableBTreeMap(1): id -> User
    itAssetStorage,                 \* StableBTreeMap(2): id -> ITAsset
    commentStorage,                 \* StableBTreeMap(3): id -> Comment
    assetMaintenanceRecordStorage,  \* StableBTreeMap(4): id -> AssetMaintenanceRecord
    nextId,                         \* the identifier the next uuidv4() returns
    last,                           \* the last call: method, payload, result
    writes                          \* the insert calls the last call made

stores == <<ticketStorage, userStorage, itAssetStorage, commentStorage,
            assetMaintenanceRecordStorage>>
vars == <<ticketStorage, userStorage, itAssetStorage, commentStorage,
          assetMaintenanceRecordStorage, nextId, last, writes>>

\* ---------------------------------------------------------- StableBTreeMap

EmptyMap == [k \in {} |-> Null]

get(store, key) == IF key \in DOMAIN store THEN Some(store[key]) ELSE None

insert(store, key, value) == [k \in DOMAIN store \cup {key} |->
                                 IF k = key THEN value ELSE store[k]]

RECURSIVE SortedKeys(_)
SortedKeys(S) == IF S = {} THEN <<>>
                 ELSE LET m == CHOOSE x \in S : \A y \in S : x <= y
                      IN <<m>> \o SortedKeys(S \ {m})

\* values(): the records in key order.
values(store) == LET ks == SortedKeys(DOMAIN store)
                 IN [i \in 1..Len(ks) |-> store[ks[i]]]

\* --------------------------------------------------------------- role check

isAdmin(userId) ==
    LET userOpt == get(userStorage, userId)
    IN IF HasKey(userOpt, "None") THEN FALSE
       ELSE StrictEquals(userOpt.val.role, JSString("Admin"))

\* A role check that only looks the user up.
isITSupport_AnyUser(userId) == ~HasKey(get(userStorage, userId), "None")

isITSupport(userId) ==
    LET userOpt == get(userStorage, userId)
    IN IF HasKey(userOpt, "None") THEN FALSE
       ELSE StrictEquals(userOpt.val.role, JSString("ITSupport"))

\* ------------------------------------------------------------------- calls

\* No call is being answered.
Idle == [op |-> "idle", payload |-> Null, result |-> Ok(Null)]

\* The canister takes the next call once the last one is answered.
Ready == last.op = "idle"

Init == /\ ticketStorage = EmptyMap
        /\ userStorage = EmptyMap
        /\ itAssetStorage = EmptyMap
        /\ commentStorage = EmptyMap
        /\ assetMaintenanceRecordStorage = EmptyMap
        /\ nextId = 1
        /\ last = Idle
        /\ writes = {}

\* A call that returns without inserting anything.
Return(op, payload, result) ==
    /\ last' = [op |-> op, payload |-> payload, result |-> result]
    /\ writes' = {}
    /\ UNCHANGED <<stores, nextId>>

\* A createUser whose scan for an equal username compares nothing.
UsernameTaken_NoScan(username) == FALSE

\* The scan of createUser: some stored user has this username.
UsernameTaken(username) ==
    LET existingUsers == values(userStorage)
    IN \E i \in DOMAIN existingUsers : existingUsers[i].username = username

createUser(payload, t) ==
    /\ Ready
    /\ IF payload.username = ""
       THEN Return("createUser", payload, Err(ErrorMessages.USERNAME_REQUIRED))
       ELSE IF UsernameTaken(payload.username)
       THEN Return("createUser", payload, Err(ErrorMessages.USERNAME_EXISTS))
       ELSE LET userId == nextId
                user == [id |-> userId,
                         username |-> payload.username,
                         role |-> payload.role,
                         created_at |-> toISOString(t)]
            IN /\ nextId <= MaxIds
               /\ nextId' = nextId + 1
               /\ userStorage' = insert(userStorage, userId, user)
               /\ writes' = {<<"userStorage", userId>>}
               /\ last' = [op |-> "createUser", payload |-> payload,
                           result |-> Ok(user)]
               /\ UNCHANGED <<ticketStorage, itAssetStorage, commentStorage,
                              assetMaintenanceRecordStorage>>

getUserById(userId) ==
    /\ Ready
    /\ LET userOpt == get(userStorage, userId)
       IN IF HasKey(userOpt, "None")
          THEN Return("getUserById", userId, Err(ErrorMessages.USER_NOT_FOUND))
          ELSE Return("getUserById", userId, Ok(userOpt.val))

getAllUsers ==
    /\ Ready
    /\ LET users == values(userStorage)
       IN IF Len(users) = 0
          THEN Return("getAllUsers", Null, Err(<<"No users found.">>))
          ELSE Return("getAllUsers", Null, Ok(users))

createTicket(payload, t) ==
    /\ Ready
    /\ IF payload.userId = EmptyId \/ payload.title = "" \/ payload.description = ""
       THEN Return("createTicket", payload,
                   Err(<<"User ID, title, and description are required.">>))
       ELSE LET userOpt == get(userStorage, payload.userId)
            IN IF HasKey(userOpt, "None")
               THEN Return("createTicket", payload,
                           Err(<<"User with ID ", payload.userId, " not found.">>))
               ELSE IF ~isITSupport(payload.userId) /\ ~isAdmin(payload.userId)
               THEN Return("createTicket", payload,
                           Err(<<"Only IT support and Admins can create tickets.">>))
               ELSE LET ticketId == nextId
                        ticket == [id |-> ticketId,
                                   userId |-> payload.userId,
                                   title |-> payload.title,
                                   description |-> payload.description,
                                   status |-> Variant("Open", "Ticket is open"),
                                   priority |-> payload.priority,
                                   created_at |-> toISOString(t),
                                   created_by |-> payload.userId,
                                   assigned_to |-> None]
                    IN /\ nextId <= MaxIds
                       /\ nextId' = nextId + 1
                       /\ ticketStorage' = insert(ticketStorage, ticketId, ticket)
                       /\ writes' = {<<"ticketStorage", ticketId>>}
                       /\ last' = [op |-> "createTicket", payload |-> payload,
                                   result |-> Ok(ticket)]
                       /\ UNCHANGED <<userStorage, itAssetStorage, commentStorage,
                                      assetMaintenanceRecordStorage>>

assignTicket(payload) ==
    /\ Ready
    /\ LET ticketOpt == get(ticketStorage, payload.ticketId)
       IN IF HasKey(ticketOpt, "None")
          THEN Return("assignTicket", payload, Err(<<"Ticket not found.">>))
          ELSE LET ticket == ticketOpt.val
                   userOpt == get(userStorage, payload.userId)
               IN IF HasKey(userOpt, "None")
                  THEN Return("assignTicket", payload,
                              Err(<<"User with ID ", payload.userId, " not found.">>))
                  ELSE IF ~isITSupport(payload.userId)
                  THEN Return("assignTicket", payload,
                              Err(<<"Only IT support can assign tickets.">>))
                  ELSE LET updatedTicket ==
                               [ticket EXCEPT !.assigned_to = Some(payload.userId)]
                       IN /\ ticketStorage' =
                                 insert(ticketStorage, payload.ticketId, updatedTicket)
                          /\ writes' = {<<"ticketStorage", payload.ticketId>>}
                          /\ last' = [op |-> "assignTicket", payload |-> payload,
                                      result |-> Ok(updatedTicket)]
                          /\ UNCHANGED <<userStorage, itAssetStorage, commentStorage,
                                         assetMaintenanceRecordStorage, nextId>>

getTickets ==
    /\ Ready
    /\ LET tickets == values(ticketStorage)
       IN IF Len(tickets) = 0
          THEN Return("getTickets", Null, Err(<<"No tickets found.">>))
          ELSE Return("getTickets", Null, Ok(tickets))

getTicketById(ticketId) ==
    /\ Ready
    /\ LET ticketOpt == get(ticketStorage, ticketId)
       IN IF HasKey(ticketOpt, "None")
          THEN Return("getTicketById", ticketId,
                      Err(<<"Ticket with ID ", ticketId, " not found.">>))
          ELSE Return("getTicketById", ticketId, Ok(ticketOpt.val))

addCommentToTicket(payload, t) ==
    /\ Ready
    /\ LET ticketOpt == get(ticketStorage, payload.ticketId)
       IN IF HasKey(ticketOpt, "None")
          THEN Return("addCommentToTicket", payload, Err(<<"Ticket not found.">>))
          ELSE LET commentId == nextId
                   comment == [id |-> commentId,
                               ticketId |-> payload.ticketId,
                               userId |-> payload.userId,
                               content |-> payload.content,
                               created_at |-> toISOString(t)]
               IN /\ nextId <= MaxIds
                  /\ nextId' = nextId + 1
                  /\ commentStorage' = insert(commentStorage, commentId, comment)
                  /\ writes' = {<<"commentStorage", commentId>>}
                  /\ last' = [op |-> "addCommentToTicket", payload |-> payload,
                              result |-> Ok(comment)]
                  /\ UNCHANGED <<ticketStorage, userStorage, itAssetStorage,
                                 assetMaintenanceRecordStorage>>

\* A getCommentsForTicket that forgets to filter.
TicketComments_NoFilter(ticketId) == values(commentStorage)

\* The filter of getCommentsForTicket.
TicketComments(ticketId) ==
    LET allComments == values(commentStorage)
    IN SelectSeq(allComments, LAMBDA comment : comment.ticketId = ticketId)

getCommentsForTicket(ticketId) ==
    /\ Ready
    /\ LET ticketComments == TicketComments(ticketId)
       IN IF Len(ticketComments) = 0
          THEN Return("getCommentsForTicket", ticketId,
                      Err(<<"No comments found for this ticket.">>))
          ELSE Return("getCommentsForTicket", ticketId, Ok(ticketComments))

updateTicketStatus(payload) ==
    /\ Ready
    /\ IF ~isAdmin(payload.userId) /\ ~isITSupport(payload.userId)
       THEN Return("updateTicketStatus", payload,
                   Err(<<"Only admins and IT support can update ticket status.">>))
       ELSE LET userOpt == get(userStorage, payload.userId)
            IN IF HasKey(userOpt, "None")
               THEN Return("updateTicketStatus", payload,
                           Err(<<"User with ID ", payload.userId, " not found.">>))
               ELSE LET ticketOpt == get(ticketStorage, payload.ticketId)
                    IN IF HasKey(ticketOpt, "None")
                       THEN Return("updateTicketStatus", payload,
                                   Err(<<"Ticket with ID ", payload.ticketId, " not found.">>))
                       ELSE LET updatedTicket ==
                                    [ticketOpt.val EXCEPT !.status = payload.newStatus]
                            IN /\ ticketStorage' =
                                      insert(ticketStorage, payload.ticketId, updatedTicket)
                               /\ writes' = {<<"ticketStorage", payload.ticketId>>}
                               /\ last' = [op |-> "updateTicketStatus",
                                           payload |-> payload,
                                           result |-> Ok(updatedTicket)]
                               /\ UNCHANGED <<userStorage, itAssetStorage, commentStorage,
                                              assetMaintenanceRecordStorage, nextId>>

\* A createITAsset that inserts the asset before it looks the user up.
createITAsset_InsertFirst(payload) ==
    /\ Ready
    /\ IF payload.asset_name = "" \/ payload.asset_type = ""
       THEN Return("createITAsset", payload,
                   Err(<<"Asset name and type are required.">>))
       ELSE LET assetId == nextId
                asset == [id |-> assetId,
                          asset_name |-> payload.asset_name,
                          asset_type |-> payload.asset_type,
                          purchase_date |-> payload.purchase_date,
                          assigned_to |-> payload.assigned_to,
                          approx_value |-> payload.approx_value,
                          depreciation_rate |-> payload.depreciation_rate]
                userOpt == get(userStorage, payload.assigned_to)
            IN /\ nextId <= MaxIds
               /\ nextId' = nextId + 1
               /\ itAssetStorage' = insert(itAssetStorage, assetId, asset)
               /\ writes' = IF HasKey(userOpt, "None") THEN {}
                            ELSE {<<"itAssetStorage", assetId>>}
               /\ last' = [op |-> "createITAsset", payload |-> payload,
                           result |-> IF HasKey(userOpt, "None")
                                      THEN Err(<<"User with ID ", payload.assigned_to,
                                                 " not found.">>)
                                      ELSE Ok(asset)]
               /\ UNCHANGED <<ticketStorage, userStorage, commentStorage,
                              assetMaintenanceRecordStorage>>

createITAsset(payload) ==
    /\ Ready
    /\ IF payload.asset_name = "" \/ payload.asset_type = ""
       THEN Return("createITAsset", payload, Err(<<"Asset name and type are required.">>))
       ELSE LET userOpt == get(userStorage, payload.assigned_to)
            IN IF HasKey(userOpt, "None")
               THEN Return("createITAsset", payload,
                           Err(<<"User with ID ", payload.assigned_to, " not found.">>))
               ELSE LET assetId == nextId
                        asset == [id |-> assetId,
                                  asset_name |-> payload.asset_name,
                                  asset_type |-> payload.asset_type,
                                  purchase_date |-> payload.purchase_date,
                                  assigned_to |-> payload.assigned_to,
                                  approx_value |-> payload.approx_value,
                                  depreciation_rate |-> payload.depreciation_rate]
                    IN /\ nextId <= MaxIds
                       /\ nextId' = nextId + 1
                       /\ itAssetStorage' = insert(itAssetStorage, assetId, asset)
                       /\ writes' = {<<"itAssetStorage", assetId>>}
                       /\ last' = [op |-> "createITAsset", payload |-> payload,
                                   result |-> Ok(asset)]
                       /\ UNCHANGED <<ticketStorage, userStorage, commentStorage,
                                      assetMaintenanceRecordStorage>>

getITAssets ==
    /\ Ready
    /\ LET itAssets == values(itAssetStorage)
       IN IF Len(itAssets) = 0
          THEN Return("getITAssets", Null, Err(<<"No IT assets found.">>))
          ELSE Return("getITAssets", Null, Ok(itAssets))

getITAssetById(assetId) ==
    /\ Ready
    /\ LET assetOpt == get(itAssetStorage, assetId)
       IN IF HasKey(assetOpt, "None")
          THEN Return("getITAssetById", assetId, Err(<<"IT asset not found.">>))
          ELSE Return("getITAssetById", assetId, Ok(assetOpt.val))

addAssetMaintenanceRecord(payload) ==
    /\ Ready
    /\ LET assetOpt == get(itAssetStorage, payload.assetId)
       IN IF HasKey(assetOpt, "None")
          THEN Return("addAssetMaintenanceRecord", payload, Err(<<"Asset not found.">>))
          ELSE LET maintenanceId == nextId
                   maintenanceRecord == [id |-> maintenanceId,
                                         assetId |-> payload.assetId,
                                         maintenanceType |-> payload.maintenanceType,
                                         description |-> payload.description,
                                         cost |-> payload.cost,
                                         date |-> payload.date]
               IN /\ nextId <= MaxIds
                  /\ nextId' = nextId + 1
                  /\ assetMaintenanceRecordStorage' =
                         insert(assetMaintenanceRecordStorage, maintenanceId,
                                maintenanceRecord)
                  /\ writes' = {<<"assetMaintenanceRecordStorage", maintenanceId>>}
                  /\ last' = [op |-> "addAssetMaintenanceRecord", payload |-> payload,
                              result |-> Ok(maintenanceRecord)]
                  /\ UNCHANGED <<ticketStorage, userStorage, itAssetStorage,
                                 commentStorage>>

getAssetMaintenanceHistory(assetId) ==
    /\ Ready
    /\ LET allRecords == values(assetMaintenanceRecordStorage)
           assetRecords == SelectSeq(allRecords, LAMBDA record : record.assetId = assetId)
       IN IF Len(assetRecords) = 0
          THEN Return("getAssetMaintenanceHistory", assetId,
                      Err(<<"No maintenance records found for this asset.">>))
          ELSE Return("getAssetMaintenanceHistory", assetId, Ok(assetRecords))

\* A calculateAssetValue without the floor at zero.
DepreciatedValue_NoFloor(asset, currentTime) ==
    BigIntDiv(asset.approx_value *
                  (100 - asset.depreciation_rate *
                             BigIntDiv(currentTime - asset.purchase_date, MS_PER_YEAR)),
              100)

\* The value calculateAssetValue returns for a stored asset at clock reading
\* currentTime.
DepreciatedValue(asset, currentTime) ==
    LET yearsSincePurchase == BigIntDiv(currentTime - asset.purchase_date, MS_PER_YEAR)
        depreciatedValue ==
            BigIntDiv(asset.approx_value *
                          (100 - asset.depreciation_rate * yearsSincePurchase),
                      100)
    IN IF depreciatedValue > 0 THEN depreciatedValue ELSE 0

calculateAssetValue(assetId, currentTime) ==
    /\ Ready
    /\ LET assetOpt == get(itAssetStorage, assetId)
           payload == [assetId |-> assetId, currentTime |-> currentTime]
       IN IF HasKey(assetOpt, "None")
          THEN Return("calculateAssetValue", payload, Err(<<"Asset not found.">>))
          ELSE Return("calculateAssetValue", payload,
                      Ok(DepreciatedValue(assetOpt.val, currentTime)))

\* The switch of generateReport: each case label is a fresh object literal,
\* compared with the decoded reportType by ===.
ReportFor(payload) ==
    IF StrictEquals(payload.reportType, Variant("OpenTickets", Null))
    THEN Ok(JSONstringify(SelectSeq(values(ticketStorage),
                                    LAMBDA ticket : HasKey(ticket.status, "Open"))))
    ELSE IF StrictEquals(payload.reportType, Variant("ClosedTickets", Null))
    THEN Ok(JSONstringify(SelectSeq(values(ticketStorage),
                                    LAMBDA ticket : HasKey(ticket.status, "Closed"))))
    ELSE IF StrictEquals(payload.reportType, Variant("InProgressTickets", Null))
    THEN Ok(JSONstringify(SelectSeq(values(ticketStorage),
                                    LAMBDA ticket : HasKey(ticket.status, "InProgress"))))
    ELSE IF StrictEquals(payload.reportType, Variant("AssetUtilization", Null))
    THEN LET assets == values(itAssetStorage)
             assetUtilization == [i \in DOMAIN assets |->
                                     [id |-> assets[i].id,
                                      name |-> assets[i].asset_name,
                                      assigned_to |-> assets[i].assigned_to]]
         IN Ok(JSONstringify(assetUtilization))
    ELSE Err(<<"Invalid report type.">>)

generateReport(payload) ==
    /\ Ready
    /\ Return("generateReport", payload, ReportFor(payload))

\* The answer of the last call reaches its caller.
Respond ==
    /\ ~Ready
    /\ last' = Idle
    /\ writes' = {}
    /\ UNCHANGED <<stores, nextId>>

\* Every method of the canister, called with identifiers drawn from I and
\* clock readings drawn from T.
Calls(I, T) ==
    \/ \E p \in UserPayload, t \in Times : createUser(p, t)
    \/ \E id \in I : getUserById(id)
    \/ getAllUsers
    \/ \E p \in TicketPayload(I), t \in Times : createTicket(p, t)
    \/ \E p \in AssignTicketPayload(I) : assignTicket(p)
    \/ getTickets
    \/ \E id \in I : getTicketById(id)
    \/ \E p \in CommentPayload(I), t \in Times : addCommentToTicket(p, t)
    \/ \E id \in I : getCommentsForTicket(id)
    \/ \E p \in UpdateTicketStatusPayload(I) : updateTicketStatus(p)
    \/ \E p \in ITAssetPayload(I) : createITAsset(p)
    \/ getITAssets
    \/ \E id \in I : getITAssetById(id)
    \/ \E p \in AssetMaintenanceRecordPayload(I) : addAssetMaintenanceRecord(p)
    \/ \E id \in I : getAssetMaintenanceHistory(id)
    \/ \E id \in I, t \in T : calculateAssetValue(id, t)
    \/ \E p \in GenerateReportPayload : generateReport(p)

Next == Calls(IdInputs, Times) \/ Respond

Spec == Init /\ [][Next]_vars

\* ---------------------------------------------------------------------------
\* The depreciation calculator on its own: one user, assets over a range of
\* purchase dates, values and rates, and the clock read over MaxYears years.

ValueTimes == 0..(MS_PER_YEAR * MaxYears)
ValueUserPayload == [username : {"alice"}, role : {Variant("User", Null)}]
ValueAssetPayload == [asset_name : {"Laptop"}, asset_type : {"Hardware"},
                      purchase_date : {0, 1, MS_PER_YEAR * MaxYears + 1},
                      assigned_to : IdInputs,
                      approx_value : {1, 1000},
                      depreciation_rate : {50, 150}]

NextValue ==
    \/ \E p \in ValueUserPayload : createUser(p, 0)
    \/ \E p \in ValueAssetPayload : createITAsset(p)
    \/ \E id \in IdInputs, t \in ValueTimes : calculateAssetValue(id, t)
    \/ Respond

SpecValue == Init /\ [][NextValue]_vars

\* ---------------------------------------------------------------------------
\* A canister whose stable memory already holds records. The five stores are
\* StableBTreeMaps: their contents outlive the code that wrote them, so the
\* methods may start from stores that hold users, tickets and comments.

RetainedUsers ==
    (101 :> [id |-> 101, username |-> "bob", role |-> Variant("ITSupport", Null),
             created_at |-> toISOString(0)]) @@
    (102 :> [id |-> 102, username |-> "alice", role |-> Variant("Admin", Null),
             created_at |-> toISOString(0)])

RetainedTickets ==
    (103 :> [id |-> 103, userId |-> 101, title |-> "Printer broken",
             description |-> "No toner",
             status |-> Variant("Open", "Ticket is open"),
             priority |-> Variant("Low", Null), created_at |-> toISOString(0),
             created_by |-> 101, assigned_to |-> None]) @@
    (104 :> [id |-> 104, userId |-> 102, title |-> "Printer broken",
             description |-> "No toner", status |-> Variant("Closed", "s"),
             priority |-> Variant("High", Null), created_at |-> toISOString(0),
             created_by |-> 102, assigned_to |-> Some(101)])

RetainedComments ==
    (105 :> [id |-> 105, ticketId |-> 103, userId |-> 101, content |-> "c",
             created_at |-> toISOString(0)]) @@
    (106 :> [id |-> 106, ticketId |-> 104, userId |-> 102, content |-> "c",
             created_at |-> toISOString(0)])

StableIdInputs == {EmptyId, MaxIds} \cup DOMAIN RetainedUsers \cup DOMAIN RetainedTickets

InitStable ==
    /\ userStorage = RetainedUsers
    /\ ticketStorage = RetainedTickets
    /\ \E ks \in SUBSET DOMAIN RetainedComments :
           commentStorage = [k \in ks |-> RetainedComments[k]]
    /\ itAssetStorage = EmptyMap
    /\ assetMaintenanceRecordStorage = EmptyMap
    /\ nextId = MaxIds
    /\ last = Idle
    /\ writes = {}

NextStable == Calls(StableIdInputs, Times) \/ Respond

SpecStable == InitStable /\ [][NextStable]_vars

\* ---------------------------------------------------------------------------
\* Properties

Called(op) == last.op = op
Range(seq) == {seq[i] : i \in DOMAIN seq}
Failed == last.result.tag = "Err"
Succeeded == last.result.tag = "Ok"
Users == {userStorage[k] : k \in DOMAIN userStorage}
Comments == {commentStorage[k] : k \in DOMAIN commentStorage}
RoleOf(userId) == userStorage[userId].role.tag

\* C1: no two stored Users have the same username; a createUser fails with
\* "Username already exists" exactly when a stored User has the payload's
\* non-empty username, and otherwise (non-empty, unused) succeeds, storing it.
C1_UsernameUnique ==
    /\ \A a, b \in DOMAIN userStorage :
           userStorage[a].username = userStorage[b].username => a = b
    /\ Called("createUser") =>
           IF last.payload.username = ""
           THEN last.result = Err(ErrorMessages.USERNAME_REQUIRED)
           ELSE IF Succeeded
           THEN /\ last.result.val.username = last.payload.username
                /\ last.result.val \in Users
                /\ writes = {<<"userStorage", last.result.val.id>>}
           ELSE /\ last.result = Err(ErrorMessages.USERNAME_EXISTS)
                /\ \E u \in Users : u.username = last.payload.username

\* A createUser refused for its username, with two users stored.
C1_Witness ==
    /\ Called("createUser")
    /\ last.result = Err(ErrorMessages.USERNAME_EXISTS)
    /\ Cardinality(DOMAIN userStorage) = 2

\* C2 (as claimed): a createTicket by a stored ITSupport or Admin user with
\* non-empty title and description succeeds, returns an Open, unassigned
\* Ticket created by that user, and the Ticket is stored under its id.
C2_CreateTicketRoundTrip ==
    ( /\ Called("createTicket")
      /\ last.payload.userId \in DOMAIN userStorage
      /\ last.payload.title # ""
      /\ last.payload.description # "" ) =>
        ( RoleOf(last.payload.userId) \in {"ITSupport", "Admin"} =>
            /\ Succeeded
            /\ HasKey(last.result.val.status, "Open")
            /\ last.result.val.assigned_to = None
            /\ last.result.val.created_by = last.payload.userId
            /\ get(ticketStorage, last.result.val.id) = Some(last.result.val) )

\* C3 (as claimed): a createTicket by a stored user of role User fails with
\* "Only IT support and Admins can create tickets." whatever the payload.
C3_AlwaysAuthorizationError ==
    ( /\ Called("createTicket")
      /\ last.payload.userId \in DOMAIN userStorage ) =>
        ( RoleOf(last.payload.userId) = "User" =>
            last.result = Err(<<"Only IT support and Admins can create tickets.">>) )

\* C3 (amended): a createTicket by a stored user of role User always fails
\* and inserts nothing: with the required-fields error when title or
\* description is empty, with the authorization error otherwise; and no
\* stored Ticket was created by a user of role User.
C3_RoleUserRejected ==
    /\ ( /\ Called("createTicket")
         /\ last.payload.userId \in DOMAIN userStorage ) =>
           ( RoleOf(last.payload.userId) = "User" =>
               /\ writes = {}
               /\ last.result =
                      IF last.payload.title = "" \/ last.payload.description = ""
                      THEN Err(<<"User ID, title, and description are required.">>)
                      ELSE Err(<<"Only IT support and Admins can create tickets.">>) )
    /\ \A k \in DOMAIN ticketStorage :
           ticketStorage[k].created_by \in DOMAIN userStorage
               => RoleOf(ticketStorage[k].created_by) # "User"

\* A complete payload from a user of role User, refused for the role.
C3_Witness ==
    /\ Called("createTicket")
    /\ last.payload.userId \in DOMAIN userStorage
    /\ last.payload.title # ""
    /\ last.payload.description # ""
    /\ last.result = Err(<<"Only IT support and Admins can create tickets.">>)
    /\ RoleOf(last.payload.userId) = "User"

C5_ReportSucceeds ==
    Called("generateReport") =>
        /\ Succeeded
        /\ ( /\ HasKey(last.payload.reportType, "OpenTickets")
             /\ \A k \in DOMAIN ticketStorage :
                    ~HasKey(ticketStorage[k].status, "Open") )
               => last.result = Ok(JSONstringify(<<>>))

\* Store s is the same after the step except at the keys of W.
SameExcept(before, after, W) ==
    \A k \in (DOMAIN before \cup DOMAIN after) \ W :
        k \in DOMAIN before /\ k \in DOMAIN after /\ before[k] = after[k]

KeysWritten(name, W) == {w[2] : w \in {x \in W : x[1] = name}}

Mutating == {"createUser", "createTicket", "assignTicket", "updateTicketStatus",
             "addCommentToTicket", "createITAsset", "addAssetMaintenanceRecord"}

\* What C6 asks of one step.
C6_Step ==
    ~Called("idle")' =>
        /\ Failed' => (stores' = stores /\ writes' = {})
        /\ last'.op \notin Mutating => (stores' = stores /\ writes' = {})
        /\ (Succeeded' /\ last'.op \in Mutating) =>
            /\ Cardinality(writes') = 1
            /\ SameExcept(ticketStorage, ticketStorage',
                          KeysWritten("ticketStorage", writes'))
            /\ SameExcept(userStorage, userStorage',
                          KeysWritten("userStorage", writes'))
            /\ SameExcept(itAssetStorage, itAssetStorage',
                          KeysWritten("itAssetStorage", writes'))
            /\ SameExcept(commentStorage, commentStorage',
                          KeysWritten("commentStorage", writes'))
            /\ SameExcept(assetMaintenanceRecordStorage, assetMaintenanceRecordStorage',
                          KeysWritten("assetMaintenanceRecordStorage", writes'))
            /\ \A k \in KeysWritten("ticketStorage", writes') : k \in DOMAIN ticketStorage'
            /\ \A k \in KeysWritten("userStorage", writes') : k \in DOMAIN userStorage'
            /\ \A k \in KeysWritten("itAssetStorage", writes') : k \in DOMAIN itAssetStorage'
            /\ \A k \in KeysWritten("commentStorage", writes') : k \in DOMAIN commentStorage'
            /\ \A k \in KeysWritten("assetMaintenanceRecordStorage", writes') :
                   k \in DOMAIN assetMaintenanceRecordStorage'

\* C6: a call that answers Err leaves the five stores as they were; a query
\* leaves them as they were; a mutating call that answers Ok made exactly one
\* insert, the inserted key now holds a record, and every other key of every
\* store is as it was.
C6_NoPartialWrite == [][C6_Step]_vars

\* A createITAsset refused for its unknown user while users and an asset are
\* stored.
C6_Witness ==
    /\ Called("createITAsset")
    /\ Failed
    /\ last.payload.asset_name # ""
    /\ last.payload.asset_type # ""
    /\ itAssetStorage # EmptyMap
    /\ userStorage # EmptyMap

\* Whole years from purchase to the clock reading: the quotient by the length
\* of a year, truncated toward zero.
YearsElapsed(asset, now) ==
    LET e == now - asset.purchase_date
        bound == MS_PER_YEAR * MaxYears + 2
    IN CHOOSE y \in (0 - bound)..bound :
           IF e >= 0
           THEN y * MS_PER_YEAR <= e /\ e < (y + 1) * MS_PER_YEAR
           ELSE y <= 0 /\ (0 - y) * MS_PER_YEAR <= 0 - e
                       /\ 0 - e < (1 - y) * MS_PER_YEAR

\* C7: calculateAssetValue of a stored asset never answers a negative value,
\* and answers exactly 0 when depreciation_rate * years elapsed >= 100.
C7_DepreciationFloor ==
    (Called("calculateAssetValue") /\ Succeeded) =>
        LET asset == itAssetStorage[last.payload.assetId]
            years == YearsElapsed(asset, last.payload.currentTime)
        IN /\ last.result.val >= 0
           /\ asset.depreciation_rate * years >= 100 => last.result.val = 0

\* An asset of positive value depreciated past 100 percent, valued at 0.
C7_Witness ==
    /\ Called("calculateAssetValue")
    /\ Succeeded
    /\ LET asset == itAssetStorage[last.payload.assetId]
       IN /\ asset.approx_value > 0
          /\ asset.depreciation_rate
                 * YearsElapsed(asset, last.payload.currentTime) > 100
          /\ last.result.val = 0

CommentsOf(ticketId) == {c \in Comments : c.ticketId = ticketId}

\* What C8 asks of the answer of a call.
C8_Answer ==
    /\ Called("getCommentsForTicket") =>
           IF CommentsOf(last.payload) = {}
           THEN last.result = Err(<<"No comments found for this ticket.">>)
           ELSE /\ Succeeded
                /\ Range(last.result.val) = CommentsOf(last.payload)
                /\ Len(last.result.val) = Cardinality(CommentsOf(last.payload))
    /\ (Called("addCommentToTicket") /\ Succeeded) =>
           /\ last.result.val \in CommentsOf(last.payload.ticketId)
           /\ last.payload.ticketId \in DOMAIN ticketStorage

\* What C8 asks of one step.
C8_Step ==
    \A k \in DOMAIN commentStorage :
        k \in DOMAIN commentStorage' /\ commentStorage'[k] = commentStorage[k]

\* C8: getCommentsForTicket(t) answers exactly the stored Comments whose
\* ticketId is t, each once, and answers "No comments found" exactly when
\* there is none; a Comment a successful addCommentToTicket returns is stored
\* under its ticket; and no step removes or changes a stored Comment.
C8_CommentAssociation == []C8_Answer /\ [][C8_Step]_vars

\* Two comments of one ticket answered, one of them added in this run, while
\* a comment of another ticket is stored.
C8_Witness ==
    /\ Called("getCommentsForTicket")
    /\ Succeeded
    /\ Len(last.result.val) = 2
    /\ \E i \in DOMAIN last.result.val : last.result.val[i].id <= MaxIds
    /\ \E c \in Comments : c.ticketId # last.payload

\* C9 (as claimed): isAdmin(id) holds exactly when a User with that id is
\* stored and its role is Admin; isITSupport likewise for ITSupport.
C9_RolePolicy ==
    \A id \in IdInputs :
        /\ isAdmin(id) <=> (id \in DOMAIN userStorage /\ RoleOf(id) = "Admin")
        /\ isITSupport(id) <=> (id \in DOMAIN userStorage /\ RoleOf(id) = "ITSupport")

NotFoundAnswers(payload) ==
    {Err(<<"User with ID ", payload.userId, " not found.">>),
     Err(<<"Ticket with ID ", payload.ticketId, " not found.">>)}

\* C10 (as claimed): updateTicketStatus answers a not-found error when the
\* user or the ticket is not stored, the authorization error when the user is
\* stored with role User, and otherwise Ok of the stored Ticket with only its
\* status replaced by newStatus.
C10_Classification ==
    Called("updateTicketStatus") =>
        LET p == last.payload
            userKnown == p.userId \in DOMAIN userStorage
            ticketKnown == p.ticketId \in DOMAIN ticketStorage
            privileged == userKnown /\ RoleOf(p.userId) \in {"Admin", "ITSupport"}
            denied == Err(<<"Only admins and IT support can update ticket status.">>)
        IN /\ ~userKnown => last.result \in NotFoundAnswers(p)
           /\ (userKnown /\ ~privileged /\ ticketKnown) => last.result = denied
           /\ (userKnown /\ ~privileged /\ ~ticketKnown) =>
                  last.result \in NotFoundAnswers(p) \cup {denied}
           /\ (privileged /\ ~ticketKnown) => last.result \in NotFoundAnswers(p)
           /\ (privileged /\ ticketKnown) =>
                  /\ Succeeded
                  /\ last.result.val.status = p.newStatus
                  /\ ticketStorage[p.ticketId] = last.result.val
====
